---- MODULE Spec2Model ----
(***************************************************************************)
(* A model of src/app.py: the per-conversation History Store, the Tool     *)
(* Invoker, the Gating Oracle, the Response Generator and the Conversation *)
(* Orchestrator (handle_message / reset_command).                          *)
(*                                                                         *)
(* Texts are sequences of one-character strings, so that strip, lower,     *)
(* substring search and the tool-call pattern are computed, not assumed.   *)
(***************************************************************************)
EXTENDS Integers, Sequences, FiniteSets, TLC

VARIABLES
    file,                 \* the history directory: key -> what the file of the key holds
    clock,                \* the wall clock read by time.strftime
    pc,                   \* position of the handler of each update
    key,                  \* handler local: key
    user_text,            \* handler local: user_text
    sender,               \* handler local: sender
    history,              \* handler local: history
    bypass_intermediate,  \* handler local: bypass_intermediate
    assistant_reply,      \* handler local: assistant_reply
    typing,               \* position of the send_typing task of each handler
    stop_typing,          \* the asyncio.Event stop_typing of each handler
    sent,                 \* the reply_text calls made by each handler, in order
    log,                  \* per key: the entries passed to update_history since the last reset
    calls,                \* per handler: the calls it made to its collaborators
    arg,                  \* the arguments of the component exercised on its own
    ret                   \* what the component returned for arg (a 1-tuple)

locals == <<key, user_text, sender, history, bypass_intermediate, assistant_reply>>

vars == <<file, clock, pc, key, user_text, sender, history, bypass_intermediate,
          assistant_reply, typing, stop_typing, sent, log, calls, arg, ret>>

handlers == <<pc, key, user_text, sender, history, bypass_intermediate,
              assistant_reply, typing, stop_typing, sent, calls>>

unit == <<arg, ret>>

(***************************************************************************)
(* Bounds of the model.                                                    *)
(***************************************************************************)
MaxUpdates == 2
MaxAppends == 103

(***************************************************************************)
(* Text helpers (Python str methods used by the program).                  *)
(***************************************************************************)
Whitespace == {" ", "\n", "\t"}

UpperCase == <<"A", "B", "C", "D", "E", "F", "G", "H", "I", "J", "K", "L", "M",
               "N", "O", "P", "Q", "R", "S", "T", "U", "V", "W", "X", "Y", "Z">>

LowerCase == <<"a", "b", "c", "d", "e", "f", "g", "h", "i", "j", "k", "l", "m",
               "n", "o", "p", "q", "r", "s", "t", "u", "v", "w", "x", "y", "z">>

LowerChar(c) ==
    IF \E i \in 1..26 : UpperCase[i] = c
    THEN LowerCase[CHOOSE i \in 1..26 : UpperCase[i] = c]
    ELSE c

\* str.lower()
lower(text) == [i \in 1..Len(text) |-> LowerChar(text[i])]

\* str.strip(): leading and trailing whitespace removed
strip(text) ==
    LET n == Len(text)
        blank(i) == text[i] \in Whitespace
    IN  IF \A i \in 1..n : blank(i) THEN <<>>
        ELSE LET lo == CHOOSE i \in 1..n : ~blank(i) /\ \A j \in 1..(i - 1) : blank(j)
                 hi == CHOOSE i \in 1..n : ~blank(i) /\ \A j \in (i + 1)..n : blank(j)
             IN  SubSeq(text, lo, hi)

\* whether sub occurs in text at position i
OccursAt(text, sub, i) ==
    /\ i >= 1
    /\ i + Len(sub) - 1 <= Len(text)
    /\ \A j \in 1..Len(sub) : text[i + j - 1] = sub[j]

\* the first position >= from at which sub occurs in text, 0 when there is none
Find(text, sub, from) ==
    LET hits == {i \in from..Len(text) : OccursAt(text, sub, i)}
    IN  IF hits = {} THEN 0 ELSE CHOOSE i \in hits : \A j \in hits : i <= j

\* Python's (sub in text)
Contains(text, sub) == Len(sub) = 0 \/ Find(text, sub, 1) # 0

\* Python's None, where a text is expected
None == <<"<None>">>

\* truthiness of an optional text: None and "" are falsy
Truthy(text) == text # None /\ text # <<>>

(***************************************************************************)
(* History Store (src/app.py, step 5).                                     *)
(***************************************************************************)
Keys == {"k1", "k2"}

MAX_HISTORY == 100

\* A history file: absent, or the JSON text of a list of entries.  complete
\* is whether the text runs to its closing bracket, i.e. whether json.load
\* accepts it.
NoFile == [exists |-> FALSE, complete |-> FALSE, entries |-> <<>>]

JsonFile(entries) == [exists |-> TRUE, complete |-> TRUE, entries |-> entries]

\* open(path, "w") followed by a json.dump that was cut after n entries
TornFile(entries, n) ==
    [exists |-> TRUE, complete |-> FALSE, entries |-> SubSeq(entries, 1, n)]

\* json.load raises on a text that is cut short
Parseable(f) == f.exists => f.complete

\* a load that takes whatever entries it could read before the text broke off
load_history_for_key_partial(store, k) == store[k].entries

\* lines 119-127: the list in the file of the key; [] when there is no file
\* or when json.load raises
load_history_for_key(store, k) ==
    IF store[k].exists /\ store[k].complete
    THEN store[k].entries
    ELSE <<>>

save_history_for_key(store, k, hist) ==
    [store EXCEPT ![k] = JsonFile(hist)]

\* the entry built by update_history; the sender is left out when falsy
NewEntry(role, content, who, now) ==
    IF Truthy(who)
    THEN [role |-> role, content |-> content, timestamp |-> now, sender |-> who]
    ELSE [role |-> role, content |-> content, timestamp |-> now]

\* history[-MAX_HISTORY:]
LastN(seq, n) ==
    IF Len(seq) > n THEN SubSeq(seq, Len(seq) - n + 1, Len(seq)) ELSE seq

\* a truncation that keeps the head of the list: history[:MAX_HISTORY]
KeepOldest(hist) ==
    IF Len(hist) > MAX_HISTORY THEN SubSeq(hist, 1, MAX_HISTORY) ELSE hist

\* no truncation at all
NoTruncate(hist) == hist

\* lines 148-149
Truncate(hist) ==
    IF Len(hist) > MAX_HISTORY THEN LastN(hist, MAX_HISTORY) ELSE hist

\* the list update_history builds, saves and returns
AppendedHistory(store, k, role, content, who, now) ==
    Truncate(Append(load_history_for_key(store, k),
                    NewEntry(role, content, who, now)))

\* the store after update_history(key, role, content, sender)
update_history(store, k, role, content, who, now) ==
    save_history_for_key(store, k,
                         AppendedHistory(store, k, role, content, who, now))

\* a reset that writes back what it found
reset_history_keep(store, k) ==
    save_history_for_key(store, k, load_history_for_key(store, k))

\* the store after reset_history(key)
reset_history(store, k) == save_history_for_key(store, k, <<>>)

(***************************************************************************)
(* Message Segmenter (src/app.py, step 6).                                 *)
(***************************************************************************)
DEFAULT_MAX_LENGTH == 4096

SentenceEnd == {".", "!", "?"}

\* the matches of (?<=[.!?])\s+ : maximal whitespace runs that follow . ! or ?
SplitStarts(text) ==
    {i \in 2..Len(text) : text[i] \in Whitespace /\ text[i - 1] \in SentenceEnd}

RunEnd(text, i) ==
    CHOOSE j \in i..Len(text) :
        /\ \A k \in i..j : text[k] \in Whitespace
        /\ (j = Len(text) \/ text[j + 1] \notin Whitespace)

\* re.split(r'(?<=[.!?])\s+', text), scanning from position from
RECURSIVE SentencesFrom(_, _)
SentencesFrom(text, from) ==
    LET starts == {i \in SplitStarts(text) : i >= from}
    IN  IF starts = {} THEN <<SubSeq(text, from, Len(text))>>
        ELSE LET s == CHOOSE i \in starts : \A j \in starts : i <= j
             IN  <<SubSeq(text, from, s - 1)>> \o SentencesFrom(text, RunEnd(text, s) + 1)

Sentences(text) == SentencesFrom(text, 1)

\* a segmenter that leaves a sentence longer than max_length whole
HardSplitWhole(sentence, max_length) == <<sentence>>

\* for i in range(0, len(sentence), max_length): sentence[i:i+max_length].strip()
HardSplit(sentence, max_length) ==
    LET n == (Len(sentence) + max_length - 1) \div max_length
    IN  [i \in 1..n |->
            strip(SubSeq(sentence, (i - 1) * max_length + 1,
                         IF i * max_length < Len(sentence) THEN i * max_length
                                                           ELSE Len(sentence)))]

\* the loop of lines 165-177 from sentence i on, then lines 178-180
RECURSIVE Pack(_, _, _, _, _)
Pack(sentences, i, chunks, current_chunk, max_length) ==
    IF i > Len(sentences)
    THEN IF current_chunk # <<>> THEN Append(chunks, strip(current_chunk)) ELSE chunks
    ELSE LET sentence == sentences[i]
         IN  IF Len(sentence) > max_length
             THEN Pack(sentences, i + 1,
                       (IF current_chunk # <<>> THEN Append(chunks, strip(current_chunk))
                                                ELSE chunks)
                           \o HardSplit(sentence, max_length),
                       <<>>, max_length)
             ELSE IF Len(current_chunk) + Len(sentence) + 1 > max_length
             THEN Pack(sentences, i + 1, Append(chunks, strip(current_chunk)),
                       sentence \o <<" ">>, max_length)
             ELSE Pack(sentences, i + 1, chunks,
                       current_chunk \o sentence \o <<" ">>, max_length)

split_message(text, max_length) ==
    IF Len(text) <= max_length THEN <<text>>
    ELSE Pack(Sentences(text), 1, <<>>, <<>>, max_length)

(***************************************************************************)
(* Tool Invoker (src/app.py, step 7).                                      *)
(***************************************************************************)
\* the backquote character, which a TLA+ string cannot hold
Backquote == "BACKQUOTE"

Fence == <<Backquote, Backquote, Backquote>>

ToolOpen == Fence \o <<"t", "o", "o", "l", "_", "c", "o", "d", "e">>

OutOpen == Fence \o <<"t", "o", "o", "l", "_", "o", "u", "t", "p", "u", "t">>

\* re.search over the pattern of line 188 (DOTALL, lazy group): the first opening
\* tag and the first fence after it; group(1).strip() is what lies between
parse_tool_call(text) ==
    LET i == Find(text, ToolOpen, 1)
        j == IF i = 0 THEN 0 ELSE Find(text, Fence, i + Len(ToolOpen))
    IN  IF i = 0 \/ j = 0 THEN None
        ELSE strip(SubSeq(text, i + Len(ToolOpen), j - 1))

Quote == "\""

EchoOpen == <<"e", "c", "h", "o", "(">>

ErrTool == <<"E", "r", "r", "o", "r", " ", "e", "x", "e", "c", "u", "t", "i", "n", "g",
             " ", "t", "o", "o", "l", ":", " ">>

\* what the exception says; its wording is not modelled
ExcText == <<"e", "x", "c">>

IsStringLiteral(code) ==
    /\ Len(code) >= 2
    /\ code[1] = Quote
    /\ code[Len(code)] = Quote
    /\ \A i \in 2..(Len(code) - 1) : code[i] \notin {Quote, "\\", "\n"}

IsEchoCall(code) ==
    /\ Len(code) >= Len(EchoOpen) + 1
    /\ OccursAt(code, EchoOpen, 1)
    /\ code[Len(code)] = ")"

\* eval(tool_code, {"__builtins__": {}}, {"echo": lambda x: x}) on the expressions
\* the model feeds it: a string literal, echo(<expression>), or something that
\* raises (an unknown name)
RECURSIVE Eval(_)
Eval(code) ==
    IF IsStringLiteral(code)
    THEN [raised |-> FALSE, value |-> SubSeq(code, 2, Len(code) - 1)]
    ELSE IF IsEchoCall(code)
    THEN Eval(strip(SubSeq(code, Len(EchoOpen) + 1, Len(code) - 1)))
    ELSE [raised |-> TRUE, value |-> ExcText]

run_tool(tool_code) ==
    LET r == Eval(tool_code)
    IN  IF r.raised THEN ErrTool \o r.value ELSE r.value

(***************************************************************************)
(* The inference service: what one chat(...) call turns out to be.  A     *)
(* stream is the chunks it yields and whether it then raises; a chunk is   *)
(* its content, or NoContent when it carries none.                         *)
(***************************************************************************)
NoContent == <<"<no content>">>

RECURSIVE Assemble(_)
\* the loop for chunk in stream: result += chunk[message][content]
Assemble(chunks) ==
    IF chunks = <<>> THEN <<>>
    ELSE (IF Head(chunks) = NoContent THEN <<>> ELSE Head(chunks)) \o Assemble(Tail(chunks))

(***************************************************************************)
(* Gating Oracle (src/app.py, step 8).                                     *)
(***************************************************************************)
Observe == <<"o", "b", "s", "e", "r", "v", "e">>

\* conversation[-5:]
recent_conversation(conversation) == LastN(conversation, 5)

\* a decision that, on an exception, goes by what was streamed until then
intermediate_decision_partial(conversation, stream) ==
    IF lower(strip(Assemble(stream.chunks))) = Observe THEN "observe" ELSE "reply"

\* lines 230-251, given what the chat call turns out to be
intermediate_decision(conversation, stream) ==
    IF stream.raises THEN "reply"
    ELSE LET decision == lower(strip(Assemble(stream.chunks)))
         IN  IF decision = <<>> THEN "reply"
             ELSE IF decision = Observe THEN "observe" ELSE "reply"

(***************************************************************************)
(* Response Generator (src/app.py, step 9).                                *)
(***************************************************************************)
ErrStream == <<"E", "r", "r", "o", "r", " ", "i", "n", " ", "s", "t", "r", "e", "a", "m",
               "i", "n", "g", " ", "r", "e", "s", "p", "o", "n", "s", "e", ":", " ">>

\* a generator that, on an exception, returns what was streamed until then
stream_ollama_chat_response_partial(conversation, stream) ==
    Assemble(stream.chunks)

\* lines 267-279, given what the chat call turns out to be; stream.error is
\* the text of the exception
stream_ollama_chat_response(conversation, stream) ==
    IF stream.raises THEN ErrStream \o stream.error
    ELSE Assemble(stream.chunks)

(***************************************************************************)
(* Inbound updates and what the collaborators may answer.                  *)
(***************************************************************************)
User(username, first_name, last_name, is_bot) ==
    [present |-> TRUE, username |-> username, first_name |-> first_name,
     last_name |-> last_name, is_bot |-> is_bot]

\* from_user is None
NoUser ==
    [present |-> FALSE, username |-> None, first_name |-> None,
     last_name |-> None, is_bot |-> FALSE]

UserAl == User(<<"a", "l">>, <<"A", "l">>, None, FALSE)

UserBo == User(None, <<"B", "o">>, <<"L", "i">>, FALSE)

ThisBot == User(<<"b", "o", "t">>, <<"B", "o", "t">>, None, TRUE)

OtherBot == User(<<"x", "b", "o", "t">>, <<"X">>, None, TRUE)

\* reply_to_message is None
NoReply == [present |-> FALSE, from_user |-> NoUser]

ReplyTo(user) == [present |-> TRUE, from_user |-> user]

ReplyTargets ==
    {NoReply, ReplyTo(ThisBot), ReplyTo(OtherBot), ReplyTo(UserAl), ReplyTo(NoUser)}

TextHi == <<" ", "h", "i", "\n">>

TextMention == <<"h", "i", " ", "@", "B", "o", "t">>

\* each chat of the model has one participant writing in it
FromUserOf(chat_id) == IF chat_id = "k1" THEN UserAl ELSE UserBo

\* a message with text, as MessageHandler(filters.TEXT) hands it over
TextUpdates ==
    {[message |-> TRUE, text |-> t, chat_id |-> k, from_user |-> FromUserOf(k),
      reply_to_message |-> r] : t \in {TextHi, TextMention}, k \in Keys, r \in ReplyTargets}

\* an edited message or a channel post: update.message is None
EditedUpdates ==
    {[message |-> FALSE, text |-> TextHi, chat_id |-> k, from_user |-> FromUserOf(k),
      reply_to_message |-> NoReply] : k \in Keys}

Stream(chunks) == [chunks |-> chunks, raises |-> FALSE, error |-> <<>>]

\* a call that raises after yielding `chunks`
Failing(chunks, error) == [chunks |-> chunks, raises |-> TRUE, error |-> error]

EchoHi == <<"e", "c", "h", "o", "(", Quote, "h", "i", Quote, ")">>

ToolBlock(code) == ToolOpen \o <<"\n">> \o code \o <<"\n">> \o Fence

\* answers of the primary model: a plain reply, a tool call, an empty
\* tool-call block, a failure, and a failure whose text holds a tool-call
\* block with a name outside the allow-list
ReplyStreams ==
    { Stream(<<<<"o", "k">>, NoContent, <<".">>>>),
      Stream(<<ToolOpen, <<"\n">> \o EchoHi, <<"\n">> \o Fence>>),
      Stream(<<ToolOpen \o <<"\n">> \o Fence>>),
      Failing(<<<<"o">>>>, ExcText),
      Failing(<<>>, ToolBlock(<<"r", "m">>)) }

\* answers of the gating model
DecisionStreams ==
    { Stream(<<<<" ", "O", "b", "s">>, <<"e", "r", "v", "e", "\n">>>>),
      Stream(<<<<"r", "e", "p", "l", "y">>>>),
      Stream(<<Observe, <<" ", "i", "t">>>>),
      Stream(<<NoContent>>),
      Failing(<<Observe>>, ExcText) }

(***************************************************************************)
(* Telegram handlers (src/app.py, step 10).                                *)
(***************************************************************************)
\* the handle from the environment, lower-cased (line 60)
BOT_USERNAME == <<"b", "o", "t">>

get_history_key(upd) == upd.chat_id

get_sender_name(upd) ==
    IF upd.from_user.present
    THEN IF Truthy(upd.from_user.username) THEN upd.from_user.username
         ELSE IF Truthy(upd.from_user.last_name)
              THEN upd.from_user.first_name \o <<" ">> \o upd.from_user.last_name
              ELSE upd.from_user.first_name
    ELSE <<"U", "n", "k", "n", "o", "w", "n">>

\* lines 310-315
Bypass(upd, text, bot_username) ==
    \/ /\ upd.reply_to_message.present
       /\ upd.reply_to_message.from_user.present
       /\ upd.reply_to_message.from_user.is_bot
    \/ /\ Truthy(bot_username)
       /\ Contains(lower(text), <<"@">> \o bot_username)

\* the acknowledgement of /reset (its wording shortened)
ResetAck == <<"r", "e", "s", "e", "t", ".">>

Handlers == 1..MaxUpdates

\* generate: the conversations passed to stream_ollama_chat_response; raised,
\* replies: whether each of these calls met an exception, and what it returned;
\* decide: the conversations rendered for intermediate_decision; decisions:
\* what it returned; tool: the code passed to run_tool
NoCalls ==
    [generate |-> <<>>, raised |-> <<>>, replies |-> <<>>, decide |-> <<>>,
     decisions |-> <<>>, tool |-> <<>>]

Terminal == {"ignored", "observed", "sent", "acked"}

\* Updates are taken from the queue in order; the handlers of updates
\* already taken may be suspended at an await while the next one starts.
\* Nothing in the program reads a timestamp back, so the model lets the clock
\* (one-second resolution) advance by one as each update arrives.
Startable(m) == pc[m] = "idle" /\ \A n \in Handlers : n < m => pc[n] # "idle"

Init ==
    /\ file = [k \in Keys |-> NoFile]
    /\ clock = 0
    /\ pc = [m \in Handlers |-> "idle"]
    /\ key = [m \in Handlers |-> "none"]
    /\ user_text = [m \in Handlers |-> None]
    /\ sender = [m \in Handlers |-> None]
    /\ history = [m \in Handlers |-> <<>>]
    /\ bypass_intermediate = [m \in Handlers |-> FALSE]
    /\ assistant_reply = [m \in Handlers |-> None]
    /\ typing = [m \in Handlers |-> "none"]
    /\ stop_typing = [m \in Handlers |-> FALSE]
    /\ sent = [m \in Handlers |-> <<>>]
    /\ log = [k \in Keys |-> <<>>]
    /\ calls = [m \in Handlers |-> NoCalls]
    /\ arg = <<>>
    /\ ret = <<>>

\* reset_command, up to its await of reply_text (lines 294-296)
reset_command(m, k) ==
    /\ Startable(m)
    /\ file' = reset_history(file, k)
    /\ log' = [log EXCEPT ![k] = <<>>]
    /\ key' = [key EXCEPT ![m] = k]
    /\ pc' = [pc EXCEPT ![m] = "ack"]
    /\ clock' = clock + 1
    /\ UNCHANGED <<unit, user_text, sender, history, bypass_intermediate,
                   assistant_reply, typing, stop_typing, sent, calls>>

\* the reply_text of reset_command returns or raises
reset_command_acked(m, ok) ==
    /\ pc[m] = "ack"
    /\ sent' = [sent EXCEPT ![m] = Append(@, [text |-> ResetAck, ok |-> ok])]
    /\ pc' = [pc EXCEPT ![m] = "acked"]
    /\ UNCHANGED <<unit, file, clock, locals, typing, stop_typing, log, calls>>

\* handle_message on an update without message or text (lines 299-300)
handle_message_ignore(m, upd) ==
    /\ Startable(m)
    /\ ~upd.message \/ upd.text = None
    /\ pc' = [pc EXCEPT ![m] = "ignored"]
    /\ clock' = clock + 1
    /\ UNCHANGED <<unit, file, locals, typing, stop_typing, sent, log, calls>>

\* handle_message up to its first await (lines 301-330): the user entry is
\* appended, the typing task is created and the generation is handed to a
\* worker thread with the list update_history returned
handle_message(m, upd) ==
    /\ Startable(m)
    /\ upd.message /\ upd.text # None
    /\ LET text == strip(upd.text)
           k == get_history_key(upd)
           who == get_sender_name(upd)
           hist == AppendedHistory(file, k, "user", text, who, clock)
       IN  /\ file' = update_history(file, k, "user", text, who, clock)
           /\ log' = [log EXCEPT ![k] = Append(@, NewEntry("user", text, who, clock))]
           /\ key' = [key EXCEPT ![m] = k]
           /\ user_text' = [user_text EXCEPT ![m] = text]
           /\ sender' = [sender EXCEPT ![m] = who]
           /\ history' = [history EXCEPT ![m] = hist]
           /\ bypass_intermediate' =
                  [bypass_intermediate EXCEPT ![m] = Bypass(upd, text, BOT_USERNAME)]
           /\ calls' = [calls EXCEPT ![m].generate = Append(@, hist)]
    /\ typing' = [typing EXCEPT ![m] = "paused"]
    /\ pc' = [pc EXCEPT ![m] = "generating"]
    /\ clock' = clock + 1
    /\ UNCHANGED <<unit, assistant_reply, stop_typing, sent>>

\* a typing task that never looks at the event
send_typing_forever(stopped) == "sending"

\* line 320: while not stop_typing.is_set()
send_typing_loop(stopped) == IF stopped THEN "done" ELSE "sending"

\* send_typing at its loop test (line 320), on its first run or after the sleep
send_typing(m) ==
    /\ typing[m] = "paused"
    /\ typing' = [typing EXCEPT ![m] = send_typing_loop(stop_typing[m])]
    /\ UNCHANGED <<unit, file, clock, pc, locals, stop_typing, sent, log, calls>>

\* send_chat_action returns or raises, and the task goes to sleep (lines 321-325)
send_typing_sleep(m) ==
    /\ typing[m] = "sending"
    /\ typing' = [typing EXCEPT ![m] = "paused"]
    /\ UNCHANGED <<unit, file, clock, pc, locals, stop_typing, sent, log, calls>>

\* the worker thread returns the initial reply; stop_typing is set and the
\* handler awaits the typing task (lines 330-336)
handle_message_generated(m, stream) ==
    /\ pc[m] = "generating"
    /\ assistant_reply' =
           [assistant_reply EXCEPT ![m] = stream_ollama_chat_response(history[m], stream)]
    /\ calls' = [calls EXCEPT
                     ![m].raised = Append(@, stream.raises),
                     ![m].replies =
                         Append(@, stream_ollama_chat_response(history[m], stream))]
    /\ stop_typing' = [stop_typing EXCEPT ![m] = TRUE]
    /\ pc' = [pc EXCEPT ![m] = "await_typing"]
    /\ UNCHANGED <<unit, file, clock, key, user_text, sender, history, bypass_intermediate,
                   typing, sent, log>>

Assistant == <<"a", "s", "s", "i", "s", "t", "a", "n", "t">>

\* an append that extends the list the handler got from its first append
\* instead of loading the file again
append_assistant_stale(m, store, content) ==
    save_history_for_key(store, key[m],
        Truncate(Append(history[m], NewEntry("assistant", content, Assistant, clock))))

\* an append that puts the assistant entry in front of the history
append_assistant_first(m, store, content) ==
    save_history_for_key(store, key[m],
        Truncate(<<NewEntry("assistant", content, Assistant, clock)>>
                     \o load_history_for_key(store, key[m])))

\* the store after update_history(key, "assistant", content, sender="assistant")
\* of lines 339 and 358: the list is loaded again from the file of the key
append_assistant(m, store, content) ==
    update_history(store, key[m], "assistant", content, Assistant, clock)

\* lines 353-354
combined_prompt(text, tool_output) ==
    text \o <<"\n">> \o OutOpen \o <<"\n">> \o tool_output \o <<"\n">> \o Fence

\* the chunks the handler is to send
parts(m) == split_message(assistant_reply[m], DEFAULT_MAX_LENGTH)

\* a handler that takes the gating decision for every message
always_deciding(m) == TRUE

\* line 342: whether the gating decision is taken
not_bypassing(m) == ~bypass_intermediate[m]

\* a handler that goes on whatever the decision (the return of line 347 lost)
after_decision_no_return(gated, decision, tool_code) ==
    IF Truthy(tool_code) THEN "generating_final" ELSE "sending"

\* lines 345-351: where the handler goes once the assistant entry is stored:
\* it returns, or runs the tool and generates again, or sends
after_decision(gated, decision, tool_code) ==
    IF gated /\ decision = "observe" THEN "observed"
    ELSE IF Truthy(tool_code) THEN "generating_final"
    ELSE "sending"

\* a handler that sets stop_typing and goes on without awaiting the task
typing_task_not_awaited(m) == TRUE

\* lines 335-338: await typing_task returns once send_typing has returned
typing_task_awaited(m) == typing[m] = "done"

\* handle_message from the end of its await of the typing task to its next
\* await or return (lines 339-364): the assistant entry is appended, the
\* gating decision is taken in place unless bypassed, and then either the
\* handler returns (observe), or the tool runs and the second generation is
\* handed to a worker thread, or the first chunk is handed to reply_text
handle_message_gate(m, stream) ==
    /\ pc[m] = "await_typing"
    /\ typing_task_awaited(m)
    /\ \E k \in {key[m]}, gated \in {not_bypassing(m)},
          tool_code \in {parse_tool_call(assistant_reply[m])},
          entry1 \in {NewEntry("assistant", assistant_reply[m], Assistant, clock)},
          store1 \in {append_assistant(m, file, assistant_reply[m])} :
         \E decision \in {IF gated
                          THEN intermediate_decision(load_history_for_key(store1, k), stream)
                          ELSE "reply"} :
           \E next \in {after_decision(gated, decision, tool_code)},
              calls1 \in {IF gated
                          THEN [calls EXCEPT
                                   ![m].decide =
                                       Append(@, recent_conversation(
                                                     load_history_for_key(store1, k))),
                                   ![m].decisions = Append(@, decision)]
                          ELSE calls} :
               IF next = "generating_final"
               THEN \E prompt \in {combined_prompt(user_text[m], run_tool(tool_code))} :
                      \E store2 \in {update_history(store1, k, "user", prompt, sender[m], clock)},
                         entry2 \in {NewEntry("user", prompt, sender[m], clock)} :
                        /\ file' = store2
                        /\ log' = [log EXCEPT ![k] = @ \o <<entry1, entry2>>]
                        /\ calls' = [calls1 EXCEPT
                                        ![m].tool = Append(@, tool_code),
                                        ![m].generate =
                                            Append(@, load_history_for_key(store2, k))]
                        /\ pc' = [pc EXCEPT ![m] = next]
               ELSE /\ file' = store1
                    /\ log' = [log EXCEPT ![k] = Append(@, entry1)]
                    /\ calls' = calls1
                    /\ pc' = [pc EXCEPT ![m] = next]
    /\ UNCHANGED <<unit, clock, locals, typing, stop_typing, sent>>

\* a handler that keeps sending the first reply
reply_first(first_reply, final_reply) == first_reply

\* line 357: the reply that is sent once the second generation has returned
reply_to_send(first_reply, final_reply) == final_reply

\* the worker thread returns the second reply (lines 356-358); the first
\* chunk is handed to reply_text
handle_message_final(m, stream) ==
    /\ pc[m] = "generating_final"
    /\ LET final_reply ==
               stream_ollama_chat_response(calls[m].generate[Len(calls[m].generate)], stream)
       IN  /\ assistant_reply' =
                  [assistant_reply EXCEPT ![m] = reply_to_send(@, final_reply)]
           /\ file' = append_assistant(m, file, final_reply)
           /\ log' = [log EXCEPT ![key[m]] =
                          Append(@, NewEntry("assistant", final_reply, Assistant, clock))]
           /\ calls' = [calls EXCEPT ![m].raised = Append(@, stream.raises),
                                     ![m].replies = Append(@, final_reply)]
    /\ pc' = [pc EXCEPT ![m] = "sending"]
    /\ UNCHANGED <<unit, clock, key, user_text, sender, history, bypass_intermediate,
                   typing, stop_typing, sent>>

\* a send loop that gives up at the first reply_text that raises
after_send_abort(i, n, ok) == IF i = n \/ ~ok THEN "sent" ELSE "sending"

\* lines 362-366: where the handler goes once the reply_text of chunk i of n
\* has returned (ok) or raised: the exception is printed and the loop goes on
after_send(i, n, ok) == IF i = n THEN "sent" ELSE "sending"

\* a reply_text returns (ok) or raises (lines 362-366); the next chunk, if
\* any, is handed over
handle_message_send(m, ok) ==
    /\ pc[m] = "sending"
    /\ LET i == Len(sent[m]) + 1
       IN  /\ sent' = [sent EXCEPT ![m] = Append(@, [text |-> parts(m)[i], ok |-> ok])]
           /\ pc' = [pc EXCEPT ![m] = after_send(i, Len(parts(m)), ok)]
    /\ UNCHANGED <<unit, file, clock, locals, typing, stop_typing, log, calls>>

Next ==
    \/ \E m \in Handlers, k \in Keys : reset_command(m, k)
    \/ \E m \in Handlers, ok \in BOOLEAN : reset_command_acked(m, ok)
    \/ \E m \in Handlers, upd \in EditedUpdates : handle_message_ignore(m, upd)
    \/ \E m \in Handlers, upd \in TextUpdates : handle_message(m, upd)
    \/ \E m \in Handlers : send_typing(m)
    \/ \E m \in Handlers : send_typing_sleep(m)
    \/ \E m \in Handlers, stream \in ReplyStreams : handle_message_generated(m, stream)
    \/ \E m \in Handlers, stream \in DecisionStreams : handle_message_gate(m, stream)
    \/ \E m \in Handlers, stream \in ReplyStreams : handle_message_final(m, stream)
    \/ \E m \in Handlers, ok \in BOOLEAN : handle_message_send(m, ok)

Spec == Init /\ [][Next]_vars

(***************************************************************************)
(* The History Store exercised on its own: appends and resets, one after   *)
(* the other, from empty stores.  Each append comes one second after the   *)
(* one before, so that the entries can be told apart.                      *)
(***************************************************************************)
StoreText == <<"m">>

StoreRoles == <<"user", "assistant", "system">>

\* the sender passed with each role; none with a system entry
StoreSender(role) ==
    IF role = "user" THEN <<"a", "l">>
    ELSE IF role = "assistant" THEN Assistant ELSE None

store_append(k) ==
    /\ clock < MaxAppends
    /\ LET role == StoreRoles[(clock % 3) + 1]
       IN  /\ file' = update_history(file, k, role, StoreText, StoreSender(role), clock)
           /\ log' = [log EXCEPT ![k] =
                          Append(@, NewEntry(role, StoreText, StoreSender(role), clock))]
    /\ clock' = clock + 1
    /\ UNCHANGED <<unit, handlers>>

store_reset(k) ==
    /\ file' = reset_history(file, k)
    /\ log' = [log EXCEPT ![k] = <<>>]
    /\ UNCHANGED <<unit, clock, handlers>>

NextStore ==
    \/ store_append("k1")
    \/ \E k \in Keys : store_reset(k)

SpecStore == Init /\ [][NextStore]_vars

(***************************************************************************)
(* The same, with the process replaced (os.execv, line 385) or killed      *)
(* while save_history_for_key is writing: open(path, "w") has emptied the  *)
(* file and json.dump has written the first n entries of the list.  The    *)
(* program starts again and goes on serving.                               *)
(***************************************************************************)
MaxTorn == 2

Min(a, b) == IF a < b THEN a ELSE b

store_append_cut(k, n) ==
    /\ clock < MaxAppends
    /\ LET role == StoreRoles[(clock % 3) + 1]
           hist == AppendedHistory(file, k, role, StoreText, StoreSender(role), clock)
       IN  /\ n <= Len(hist)
           /\ file' = [file EXCEPT ![k] = TornFile(hist, n)]
    /\ log' = [log EXCEPT ![k] = <<>>]
    /\ clock' = clock + 1
    /\ UNCHANGED <<unit, handlers>>

store_reset_cut(k) ==
    /\ file' = [file EXCEPT ![k] = TornFile(<<>>, 0)]
    /\ log' = [log EXCEPT ![k] = <<>>]
    /\ UNCHANGED <<unit, clock, handlers>>

NextStoreCrash ==
    \/ NextStore
    \/ \E n \in 0..MaxTorn : store_append_cut("k1", n)
    \/ \E k \in Keys : store_reset_cut(k)

SpecStoreCrash == Init /\ [][NextStoreCrash]_vars

(***************************************************************************)
(* The Gating Oracle exercised on its own, on every stream of at most      *)
(* MaxChunks chunks that the inference service may produce.                *)
(***************************************************************************)
MaxChunks == 2

DecisionChunks ==
    { <<" ">>, <<"\n">>, <<"O", "b", "s">>, <<"e", "r", "v", "e">>, Observe,
      <<"o", "b", "s", "e", "r", "v", "e", "d">>, <<"r", "e", "p", "l", "y">>, NoContent }

SeqsUpTo(S, n) == UNION {[1..i -> S] : i \in 0..n}

OracleStreams ==
    {Stream(c) : c \in SeqsUpTo(DecisionChunks, MaxChunks)}
        \cup {Failing(c, ExcText) : c \in SeqsUpTo(DecisionChunks, MaxChunks)}

OracleConversation == <<NewEntry("user", TextMention, <<"a", "l">>, 0)>>

decide(stream) ==
    /\ arg = <<>>
    /\ arg' = <<OracleConversation, stream>>
    /\ ret' = <<intermediate_decision(OracleConversation, stream)>>
    /\ UNCHANGED <<file, clock, log, handlers>>

NextOracle == \E stream \in OracleStreams : decide(stream)

SpecOracle == Init /\ [][NextOracle]_vars

(***************************************************************************)
(* Properties.                                                             *)
(***************************************************************************)
Texts(calls_made) == [i \in 1..Len(calls_made) |-> calls_made[i].text]

Done(m) == pc[m] \in Terminal

\* C1: appends of handlers that are in flight together for one key do not
\* overwrite each other: in every state the persisted history of a key is
\* the sequence of all entries appended to it since its last reset, in the
\* order of the appends, cut to the most recent MAX_HISTORY.
C1_AppendsAtomic ==
    \A k \in Keys : load_history_for_key(file, k) = LastN(log[k], MAX_HISTORY)

\* two handlers of one key have finished, the second having appended its
\* user entry between the user entry and the assistant entry of the first
C1_Witness ==
    \E k \in Keys :
        /\ key[1] = k /\ key[2] = k
        /\ pc[1] \in {"sent", "observed"} /\ pc[2] \in {"sent", "observed"}
        /\ LET h == load_history_for_key(file, k)
           IN  /\ Len(h) >= 4
               /\ h[1].role = "user" /\ h[1].timestamp = 0
               /\ h[2].role = "user" /\ h[2].timestamp = 1

\* C2: the persisted sequence of every key has at most MAX_HISTORY entries,
\* in every state reached by appends and resets from empty stores.
C2_LengthBounded ==
    \A k \in Keys : Len(file[k].entries) <= MAX_HISTORY

\* more than MAX_HISTORY entries were appended to a key since its last reset
C2_Witness ==
    /\ Len(log["k1"]) > MAX_HISTORY
    /\ Len(file["k1"].entries) = MAX_HISTORY

\* C3: once more than MAX_HISTORY entries were appended to a key, exactly
\* MAX_HISTORY are kept: the most recently appended ones, in their order.
C3_MostRecentKept ==
    \A k \in Keys :
        Len(log[k]) > MAX_HISTORY =>
            /\ Len(file[k].entries) = MAX_HISTORY
            /\ \A i \in 1..MAX_HISTORY :
                   file[k].entries[i] = log[k][Len(log[k]) - MAX_HISTORY + i]

\* three entries were evicted
C3_Witness ==
    /\ Len(log["k1"]) = MAX_HISTORY + 3
    /\ file["k1"].entries[1] = log["k1"][4]

\* C4: once the reset command of update m has run, no entry appended to its
\* key before that reset is loaded again, whatever the handlers in flight do
\* afterwards.  Update m is taken when the clock reads m - 1, and the clock
\* then moves to m: the entries appended before the reset are those stamped
\* below m.  (Right after the reset no entry is stamped m or later, so the
\* history loaded is empty.)
C4_ResetDiscards ==
    \A m \in Handlers :
        pc[m] \in {"ack", "acked"} =>
            \A i \in 1..Len(load_history_for_key(file, key[m])) :
                load_history_for_key(file, key[m])[i].timestamp >= m

\* the reset came between the user append and the assistant append of the
\* handler of update 1, which has then appended its assistant entry
C4_Witness ==
    /\ pc[1] = "sent"
    /\ pc[2] \in {"ack", "acked"}
    /\ key[1] = key[2]
    /\ LET h == load_history_for_key(file, key[2])
       IN  Len(h) = 1 /\ h[1].role = "assistant"

\* C5: at every point, a crash in the middle of a write included, the
\* history file of every key holds a parseable sequence.
C5_AlwaysParseable ==
    \A k \in Keys : Parseable(file[k])

\* whether the initial generation of handler m met an exception
InitialFailed(m) == Len(calls[m].raised) >= 1 /\ calls[m].raised[1]

IsErrorString(text) == OccursAt(text, ErrStream, 1) /\ Len(text) > Len(ErrStream)

\* the step of handler m that stores the assistant entry of the initial reply
StoresInitialReply(m) == pc[m] = "await_typing" /\ pc'[m] # "await_typing"

\* after that step, the history of the key of m holds the initial reply as an
\* assistant entry: the last one, or the one before the combined user entry
InitialReplyStored(m) ==
    LET h == load_history_for_key(file', key[m])
        i == IF pc'[m] = "generating_final" THEN Len(h) - 1 ELSE Len(h)
    IN  /\ i >= 1
        /\ h[i].role = "assistant"
        /\ h[i].content = calls[m].replies[1]
        /\ h[i].sender = Assistant

\* C6 as stated: when the initial inference call fails, an error string is
\* returned, is appended as the assistant entry, and is sent to the user,
\* for every inbound text message.
C6_ErrorStringAlwaysSent ==
    [][\A m \in Handlers :
          /\ (StoresInitialReply(m) /\ InitialFailed(m)) =>
                 IsErrorString(calls[m].replies[1]) /\ InitialReplyStored(m)
          /\ (Done(m)' /\ InitialFailed(m)') =>
                 \E i \in 1..Len(sent'[m]) : sent'[m][i].text = calls'[m].replies[1]
      ]_vars

\* C6 as amended: when the initial inference call fails, an error string is
\* returned and appended as the assistant entry; it is what is sent to the
\* user unless the gating decision is observe (nothing is sent) or the error
\* text itself holds a tool call (the second generation's output is sent).
C6_ErrorStringStoredAndSent ==
    [][\A m \in Handlers :
          /\ (StoresInitialReply(m) /\ InitialFailed(m)) =>
                 IsErrorString(calls[m].replies[1]) /\ InitialReplyStored(m)
          /\ (Done(m)' /\ InitialFailed(m)') =>
                 IF calls'[m].decisions = <<"observe">> THEN sent'[m] = <<>>
                 ELSE IF calls'[m].tool # <<>>
                 THEN Texts(sent'[m]) =
                          split_message(calls'[m].replies[2], DEFAULT_MAX_LENGTH)
                 ELSE Texts(sent'[m]) =
                          split_message(calls'[m].replies[1], DEFAULT_MAX_LENGTH)
      ]_vars

\* a gated message whose initial generation failed: the decision was reply
\* and the error string was sent
C6_Witness ==
    \E m \in Handlers :
        /\ pc[m] = "sent"
        /\ InitialFailed(m)
        /\ calls[m].decisions = <<"reply">>
        /\ Texts(sent[m]) = <<calls[m].replies[1]>>
        /\ IsErrorString(calls[m].replies[1])

\* the reply a handler ends with
FinalReply(m) == calls[m].replies[Len(calls[m].replies)]

\* C7: a handler whose bypass flag is true never invokes the Gating Oracle,
\* never ends observing, and once it has ended has handed every chunk of
\* its final reply to the platform, in order.
C7_BypassAlwaysReplies ==
    \A m \in Handlers :
        bypass_intermediate[m] =>
            /\ calls[m].decide = <<>> /\ calls[m].decisions = <<>>
            /\ pc[m] # "observed"
            /\ Done(m) =>
                   /\ pc[m] = "sent"
                   /\ Texts(sent[m]) = split_message(FinalReply(m), DEFAULT_MAX_LENGTH)
                   /\ Len(sent[m]) >= 1

\* a message that mentions the handle and replies to nobody was answered
C7_Witness ==
    \E m \in Handlers :
        /\ bypass_intermediate[m]
        /\ Contains(lower(user_text[m]), <<"@">> \o BOT_USERNAME)
        /\ pc[m] = "sent"
        /\ Texts(sent[m]) = <<calls[m].replies[1]>>

\* C8: when the gating decision of a handler is observe, the handler stops
\* there: nothing is sent, no tool runs, no second generation is made; and
\* the step that took the decision leaves the assistant entry as the last
\* entry of the persisted history.
C8_ObserveStops ==
    [][\A m \in Handlers :
          calls'[m].decisions = <<"observe">> =>
              /\ pc'[m] = "observed"
              /\ sent'[m] = <<>>
              /\ calls'[m].tool = <<>>
              /\ Len(calls'[m].generate) = 1
              /\ StoresInitialReply(m) => InitialReplyStored(m)
      ]_vars

\* the suppressed reply held a tool call
C8_Witness ==
    \E m \in Handlers :
        /\ pc[m] = "observed"
        /\ parse_tool_call(assistant_reply[m]) = EchoHi
        /\ LET h == load_history_for_key(file, key[m])
           IN  Len(h) = 2 /\ h[2].content = assistant_reply[m]

\* the positions of the assistant entries with the given content
AssistantEntries(h, content) ==
    {i \in 1..Len(h) : h[i].role = "assistant" /\ h[i].content = content}

\* the combined user entry of handler m, as the claim words it
CombinedContent(m) ==
    user_text[m] \o <<"\n">> \o OutOpen \o <<"\n">>
        \o run_tool(calls[m].tool[1]) \o <<"\n">> \o Fence

\* the positions in h of the first assistant entry of handler m, the one
\* that is followed by its combined user entry
FirstAssistantEntries(m, h) ==
    {i \in AssistantEntries(h, calls[m].replies[1]) :
        /\ i < Len(h)
        /\ h[i + 1].role = "user"
        /\ h[i + 1].content = CombinedContent(m)}

\* C9: when the initial reply of a handler that is not suppressed holds a
\* tool call with executable code, that code is run; the second generation
\* is called with a history that ends with the first assistant entry and
\* the combined user entry (the user text and the fenced tool output); once
\* the handler has ended, what it sent is the second reply; and, unless the
\* key was reset in between, the persisted history holds both assistant
\* entries, the first before the second.
C9_ToolRoundTrip ==
    \A m \in Handlers :
        (/\ Len(calls[m].replies) >= 1
         /\ Truthy(parse_tool_call(calls[m].replies[1]))
         /\ pc[m] \in {"generating_final", "sending", "sent"}) =>
            /\ calls[m].tool = <<parse_tool_call(calls[m].replies[1])>>
            /\ Len(calls[m].generate) = 2
            /\ LET conversation == calls[m].generate[2]
                   n == Len(conversation)
               IN  /\ n >= 2
                   /\ conversation[n - 1].role = "assistant"
                   /\ conversation[n - 1].content = calls[m].replies[1]
                   /\ conversation[n].role = "user"
                   /\ conversation[n].sender = sender[m]
                   /\ conversation[n].content = CombinedContent(m)
            /\ pc[m] \in {"sending", "sent"} =>
                   /\ Len(calls[m].replies) = 2
                   /\ FirstAssistantEntries(m, log[key[m]]) # {} =>
                          \E i \in FirstAssistantEntries(m, load_history_for_key(file, key[m])) :
                              \E j \in AssistantEntries(load_history_for_key(file, key[m]),
                                                        calls[m].replies[2]) : i + 1 < j
            /\ pc[m] = "sent" =>
                   Texts(sent[m]) = split_message(calls[m].replies[2], DEFAULT_MAX_LENGTH)

\* echo("hi") was run, its output went into the combined user entry, and the
\* second reply, which differs from the first, is what was sent; the
\* history holds the four entries of the message
C9_Witness ==
    \E m \in Handlers :
        /\ pc[m] = "sent"
        /\ calls[m].tool = <<EchoHi>>
        /\ Len(calls[m].replies) = 2
        /\ calls[m].replies[1] # calls[m].replies[2]
        /\ Texts(sent[m]) = <<calls[m].replies[2]>>
        /\ LET h == load_history_for_key(file, key[m])
           IN  /\ Len(h) = 4
               /\ h[2].content = calls[m].replies[1]
               /\ h[3].content =
                      user_text[m] \o <<"\n">> \o OutOpen \o <<"\n", "h", "i", "\n">> \o Fence
               /\ h[4].content = calls[m].replies[2]

\* whether a text counts as the answer observe: the seven letters, in
\* either case, with nothing but whitespace around them
IsObserve(text) ==
    \E i \in 1..Len(text) :
        /\ i + 6 <= Len(text)
        /\ \A p \in 1..Len(text) : (p < i \/ p > i + 6) => text[p] \in Whitespace
        /\ \A q \in 1..7 :
               \E c \in 1..26 :
                   /\ LowerCase[c] = Observe[q]
                   /\ text[i + q - 1] \in {LowerCase[c], UpperCase[c]}

RECURSIVE Streamed(_)
\* the text a stream amounts to
Streamed(chunks) ==
    IF Len(chunks) = 0 THEN <<>>
    ELSE Streamed(SubSeq(chunks, 1, Len(chunks) - 1))
             \o (IF chunks[Len(chunks)] = NoContent THEN <<>> ELSE chunks[Len(chunks)])

\* C10: the Gating Oracle always returns reply or observe; it returns
\* observe exactly when the call met no exception and the streamed text,
\* trimmed and lower-cased, is observe; so an empty output, any other
\* output, and any exception give reply.
C10_FailOpen ==
    arg # <<>> =>
        /\ ret[1] \in {"reply", "observe"}
        /\ ret[1] = "observe" <=> (~arg[2].raises /\ IsObserve(Streamed(arg[2].chunks)))

\* the service streamed observe and then raised: the decision is reply
C10_Witness ==
    /\ arg # <<>>
    /\ arg[2].raises
    /\ Streamed(arg[2].chunks) = Observe
    /\ ret = <<"reply">>

(***************************************************************************)
(* The Message Segmenter exercised on its own: split_message applied to    *)
(* every text of at most MaxTextLen characters over a letter, a sentence   *)
(* end and a blank, with every max_length from 1 to MaxSegment.            *)
(***************************************************************************)
MaxTextLen == 6

MaxSegment == 3

SegmentChars == {"a", ".", " "}

SegmentTexts == SeqsUpTo(SegmentChars, MaxTextLen)

segment(text, max_length) ==
    /\ arg = <<>>
    /\ arg' = <<text, max_length>>
    /\ ret' = <<split_message(text, max_length)>>
    /\ UNCHANGED <<file, clock, log, handlers>>

NextSegment == \E text \in SegmentTexts, max_length \in 1..MaxSegment : segment(text, max_length)

SpecSegment == Init /\ [][NextSegment]_vars

\* a text without its whitespace
NoSpace(text) == SelectSeq(text, LAMBDA c : c \notin Whitespace)

RECURSIVE Concat(_)
Concat(chunks) == IF chunks = <<>> THEN <<>> ELSE Head(chunks) \o Concat(Tail(chunks))

\* the text is two sentences, each of which fits in max_length (its length is
\* at most max_length), and the two with a blank between them do not fit
TwoFittingSentences(text, max_length) ==
    LET sentences == Sentences(text)
    IN  /\ Len(sentences) = 2
        /\ \A i \in 1..2 : strip(sentences[i]) # <<>> /\ Len(sentences[i]) <= max_length
        /\ Len(sentences[1]) + 1 + Len(sentences[2]) > max_length

\* C14: segmenting a text of two sentences, each of length at most max_length,
\* that together exceed max_length returns exactly two chunks, the first
\* holding the first sentence and the second the second, and the chunks put
\* together are the text again (whitespace aside).
C14_TwoSentencesTwoChunks ==
    arg # <<>> =>
        LET text == arg[1]
            max_length == arg[2]
            chunks == ret[1]
        IN  TwoFittingSentences(text, max_length) =>
                /\ Len(chunks) = 2
                /\ \A i \in 1..2 : chunks[i] = strip(Sentences(text)[i])
                /\ NoSpace(Concat(chunks)) = NoSpace(text)

\* C15: every chunk split_message returns is at most max_length long, and a
\* text that is one sentence longer than max_length comes back as
\* ceil(len / max_length) chunks.
C15_ChunksBounded ==
    arg # <<>> =>
        LET text == arg[1]
            max_length == arg[2]
            chunks == ret[1]
        IN  /\ \A i \in 1..Len(chunks) : Len(chunks[i]) <= max_length
            /\ (SplitStarts(text) = {} /\ Len(text) > max_length) =>
                   Len(chunks) = (Len(text) + max_length - 1) \div max_length

\* a single sentence of more than twice max_length came back as three chunks,
\* the first two of them max_length long
C15_Witness ==
    /\ arg # <<>>
    /\ SplitStarts(arg[1]) = {}
    /\ Len(arg[1]) > 2 * arg[2]
    /\ arg[2] >= 2
    /\ Len(ret[1]) = 3
    /\ Len(ret[1][1]) = arg[2]
    /\ Len(ret[1][2]) = arg[2]

(***************************************************************************)
(* The bypass test of handle_message (lines 309-315) exercised on its own, *)
(* on messages that reply to nothing, to this bot, to another bot, to a    *)
(* person or to a message without author, with and without a handle        *)
(* configured.                                                             *)
(***************************************************************************)
BypassTexts ==
    { TextHi, TextMention,
      <<"@", "B", "O", "T">>,
      <<"@", "b", "o">>,
      <<"b", "o", "t">>,
      <<"a", "@", "b", "o", "t", "s">> }

BypassUpdates ==
    {[message |-> TRUE, text |-> t, chat_id |-> k, from_user |-> FromUserOf(k),
      reply_to_message |-> r] : t \in BypassTexts, k \in Keys, r \in ReplyTargets}

\* os.getenv("BOT_USERNAME", "").lower(): unset, or the handle of this bot
BotUsernames == {<<>>, BOT_USERNAME}

bypass(upd, bot_username) ==
    /\ arg = <<>>
    /\ arg' = <<upd, bot_username>>
    /\ ret' = <<Bypass(upd, strip(upd.text), bot_username)>>
    /\ UNCHANGED <<file, clock, log, handlers>>

NextBypass == \E upd \in BypassUpdates, bot_username \in BotUsernames : bypass(upd, bot_username)

SpecBypass == Init /\ [][NextBypass]_vars

\* the message is a direct reply to a message that this bot sent
RepliesToThisBot(upd) ==
    upd.reply_to_message.present /\ upd.reply_to_message.from_user = ThisBot

\* the text holds a mention of the configured handle, whatever the case
Mentions(text, bot_username) ==
    /\ bot_username # <<>>
    /\ \E i \in 1..Len(text) : OccursAt(lower(text), <<"@">> \o bot_username, i)

\* C19: the bypass flag is true exactly when the message replies to a message
\* sent by this bot or its text mentions the configured handle (in any case);
\* otherwise, a reply to a message of another account included, it is false
\* and gating is applied.
C19_BypassExactly ==
    arg # <<>> =>
        ret[1] = (RepliesToThisBot(arg[1]) \/ Mentions(arg[1].text, arg[2]))

(***************************************************************************)
(* One message handled from start to end, with replies of the primary      *)
(* model that are longer than the 4096 characters of one Telegram message. *)
(***************************************************************************)
\* a sentence of n characters: n - 1 times the letter c and a full stop
LongSentence(c, n) == [i \in 1..n |-> IF i = n THEN "." ELSE c]

\* three sentences of 2500, 2500 and 4200 characters: four chunks, the last
\* two cut out of the third sentence
LongReply ==
    LongSentence("a", 2500) \o <<" ">> \o LongSentence("b", 2500) \o <<"\n">>
        \o LongSentence("c", 4200)

\* two sentences of 4096 and 10 characters
LongReplyExact == LongSentence("a", DEFAULT_MAX_LENGTH) \o <<" ">> \o LongSentence("b", 10)

LongReplyStreams ==
    { Stream(<<SubSeq(LongReply, 1, 3000), SubSeq(LongReply, 3001, Len(LongReply))>>),
      Stream(<<LongReplyExact>>),
      Stream(<<ToolOpen, <<"\n">> \o EchoHi, <<"\n">> \o Fence>>),
      Failing(<<LongReply>>, ExcText) }

LongUpdates ==
    {[message |-> TRUE, text |-> t, chat_id |-> "k1", from_user |-> UserAl,
      reply_to_message |-> NoReply] : t \in {TextHi, TextMention}}

NextLong ==
    \/ \E upd \in LongUpdates : handle_message(1, upd)
    \/ send_typing(1)
    \/ send_typing_sleep(1)
    \/ \E stream \in LongReplyStreams : handle_message_generated(1, stream)
    \/ \E stream \in DecisionStreams : handle_message_gate(1, stream)
    \/ \E stream \in LongReplyStreams : handle_message_final(1, stream)
    \/ \E ok \in BOOLEAN : handle_message_send(1, ok)

SpecLong == Init /\ [][NextLong]_vars

\* C11: the chunks of the final reply are handed to reply_text in the order
\* split_message returned them, each once, whether or not the reply_text of an
\* earlier chunk raised: what a handler has sent is always the first chunks
\* of its reply, and all of them once it is done.
C11_ChunksInOrder ==
    \A m \in Handlers :
        pc[m] \in {"sending", "sent"} =>
            /\ Len(sent[m]) <= Len(parts(m))
            /\ Texts(sent[m]) = SubSeq(parts(m), 1, Len(sent[m]))
            /\ pc[m] = "sent" <=> Len(sent[m]) = Len(parts(m))

\* a reply of four chunks all of which were attempted, although the first
\* and the third reply_text raised
C11_Witness ==
    /\ pc[1] = "sent"
    /\ Len(parts(1)) = 4
    /\ Len(sent[1]) = 4
    /\ ~sent[1][1].ok
    /\ sent[1][2].ok
    /\ ~sent[1][3].ok
    /\ sent[1][4].ok

(***************************************************************************)
(* The event loop runs one handler at a time, from one await to the next:  *)
(* an action of the handler specification is what a handler does between   *)
(* two awaits.  A call handed to a worker thread and awaited is in flight   *)
(* from the step that makes it to the later step that takes its result,    *)
(* and the steps of the other handlers and of the typing tasks come in     *)
(* between.  A call that one step both makes and takes the result of was   *)
(* made on the event loop itself, which ran nothing else until it returned.*)
(***************************************************************************)
\* the step makes a call to the primary model for handler m
StartsGeneration(m) == Len(calls'[m].generate) > Len(calls[m].generate)

\* the step takes the result of a call to the primary model
EndsGeneration(m) == Len(calls'[m].replies) > Len(calls[m].replies)

\* the step makes the call to the gating model
StartsDecision(m) == Len(calls'[m].decide) > Len(calls[m].decide)

\* the step takes the result of the call to the gating model
EndsDecision(m) == Len(calls'[m].decisions) > Len(calls[m].decisions)

\* C12: no call into the inference service blocks the event loop: the step
\* of a handler that makes a call (initial generation, gating decision,
\* generation after a tool) ends at an await, and the result is taken by a
\* later step, so that other handlers and the typing task can run while the
\* call is in flight.
C12_CallsOffTheLoop ==
    [][\A m \in Handlers :
           /\ StartsGeneration(m) => ~EndsGeneration(m)
           /\ StartsDecision(m) => ~EndsDecision(m)]_vars

\* the part of C12 that the code keeps: both generations are awaited
GenerationsOffTheLoop ==
    [][\A m \in Handlers : StartsGeneration(m) => ~EndsGeneration(m)]_vars

\* handler m has appended the assistant entry of its initial reply (line 339)
PastAssistantEntry(m) == pc[m] \in {"observed", "generating_final", "sending", "sent"}

\* C13: the typing task of a message is told to stop when the initial
\* generation returns, whether the model call succeeded or raised, and the
\* handler waits for the task to end before it goes on: a typing signal is
\* only ever in progress before the assistant entry is appended, and once the
\* handler is past that point, or has ended, its typing task has ended.
C13_TypingStopped ==
    \A m \in Handlers :
        /\ stop_typing[m] <=> Len(calls[m].replies) >= 1
        /\ typing[m] \in {"paused", "sending"} => pc[m] \in {"generating", "await_typing"}
        /\ PastAssistantEntry(m) => typing[m] = "done"
        /\ Done(m) => typing[m] \in {"none", "done"}

\* a handler whose model call raised has ended, and so has its typing task
C13_Witness ==
    \E m \in Handlers :
        /\ pc[m] = "sent"
        /\ calls[m].raised[1]
        /\ stop_typing[m]
        /\ typing[m] = "done"

(***************************************************************************)
(* The program started on a history directory left behind by an earlier   *)
(* run: for each key no file, a complete file, or a file that a cut write  *)
(* left unparseable.  arg keeps the directory as it was found.  One update *)
(* is handled.                                                             *)
(***************************************************************************)
DiskEntries ==
    << NewEntry("user", <<"o", "l", "d">>, <<"a", "l">>, 0),
       NewEntry("assistant", <<"o", "k">>, Assistant, 0) >>

DiskFiles ==
    {NoFile, JsonFile(<<>>), JsonFile(DiskEntries), TornFile(DiskEntries, 0),
     TornFile(DiskEntries, 1)}

InitRestart ==
    /\ file \in [Keys -> DiskFiles]
    /\ clock = 1
    /\ pc = [m \in Handlers |-> "idle"]
    /\ key = [m \in Handlers |-> "none"]
    /\ user_text = [m \in Handlers |-> None]
    /\ sender = [m \in Handlers |-> None]
    /\ history = [m \in Handlers |-> <<>>]
    /\ bypass_intermediate = [m \in Handlers |-> FALSE]
    /\ assistant_reply = [m \in Handlers |-> None]
    /\ typing = [m \in Handlers |-> "none"]
    /\ stop_typing = [m \in Handlers |-> FALSE]
    /\ sent = [m \in Handlers |-> <<>>]
    /\ log = [k \in Keys |-> <<>>]
    /\ calls = [m \in Handlers |-> NoCalls]
    /\ arg = <<file>>
    /\ ret = <<>>

NextOne ==
    \/ \E k \in Keys : reset_command(1, k)
    \/ \E ok \in BOOLEAN : reset_command_acked(1, ok)
    \/ \E upd \in EditedUpdates : handle_message_ignore(1, upd)
    \/ \E upd \in TextUpdates : handle_message(1, upd)
    \/ send_typing(1)
    \/ send_typing_sleep(1)
    \/ \E stream \in ReplyStreams : handle_message_generated(1, stream)
    \/ \E stream \in DecisionStreams : handle_message_gate(1, stream)
    \/ \E stream \in ReplyStreams : handle_message_final(1, stream)
    \/ \E ok \in BOOLEAN : handle_message_send(1, ok)

SpecRestart == InitRestart /\ [][NextOne]_vars

\* there is no file for the key, or its text does not parse
Unreadable(f) == ~f.exists \/ ~f.complete

\* handler m has appended its user entry
Handling(m) == pc[m] \notin {"idle", "ignored", "ack", "acked"}

\* C16: loading the history of a key that has no file, or whose file is
\* unreadable or corrupt, gives the empty list and raises nothing, and the
\* message is handled against that empty history: the history the handler
\* got back, and passed to the model, is its own user entry alone, and the
\* handler goes on to store it.
C16_LoadFailsEmpty ==
    /\ \A k \in Keys : Unreadable(file[k]) => load_history_for_key(file, k) = <<>>
    /\ \A m \in Handlers :
           (Handling(m) /\ Unreadable(arg[1][key[m]])) =>
               /\ history[m] = <<NewEntry("user", user_text[m], sender[m], 1)>>
               /\ calls[m].generate[1] = history[m]
               /\ ~Unreadable(file[key[m]])
               /\ load_history_for_key(file, key[m])[1] = history[m][1]

\* a message was handled to its end and answered although the file of its
\* key was cut short after its first entry: the history now holds the user
\* entry and the assistant entry
C16_Witness ==
    \E m \in Handlers :
        /\ pc[m] = "sent"
        /\ arg[1][key[m]] = TornFile(DiskEntries, 1)
        /\ Len(load_history_for_key(file, key[m])) = 2
        /\ load_history_for_key(file, key[m])[2].content = assistant_reply[m]

(***************************************************************************)
(* Updates handled one after the other: the next update is taken once the  *)
(* handler of the one before has returned.                                 *)
(***************************************************************************)
\* no handler is suspended at an await
Quiet == \A m \in Handlers : pc[m] = "idle" \/ Done(m)

NextSeq ==
    \/ Quiet /\ \E m \in Handlers, k \in Keys : reset_command(m, k)
    \/ \E m \in Handlers, ok \in BOOLEAN : reset_command_acked(m, ok)
    \/ Quiet /\ \E m \in Handlers, upd \in EditedUpdates : handle_message_ignore(m, upd)
    \/ Quiet /\ \E m \in Handlers, upd \in TextUpdates : handle_message(m, upd)
    \/ \E m \in Handlers : send_typing(m)
    \/ \E m \in Handlers : send_typing_sleep(m)
    \/ \E m \in Handlers, stream \in ReplyStreams : handle_message_generated(m, stream)
    \/ \E m \in Handlers, stream \in DecisionStreams : handle_message_gate(m, stream)
    \/ \E m \in Handlers, stream \in ReplyStreams : handle_message_final(m, stream)
    \/ \E m \in Handlers, ok \in BOOLEAN : handle_message_send(m, ok)

SpecSeq == Init /\ [][NextSeq]_vars

\* role, content and sender of the entries of a history
Shape(h) == [i \in 1..Len(h) |-> <<h[i].role, h[i].content, h[i].sender>>]

\* what the handler of message m is to have appended so far: the user entry,
\* the assistant entry, and when a tool ran the combined user entry and the
\* second assistant entry
EntriesOf(m) ==
    IF ~Handling(m) THEN <<>>
    ELSE <<<<"user", user_text[m], sender[m]>>>>
         \o (IF PastAssistantEntry(m)
             THEN <<<<"assistant", calls[m].replies[1], Assistant>>>> ELSE <<>>)
         \o (IF Len(calls[m].tool) = 1
             THEN <<<<"user", CombinedContent(m), sender[m]>>>> ELSE <<>>)
         \o (IF Len(calls[m].replies) = 2
             THEN <<<<"assistant", calls[m].replies[2], Assistant>>>> ELSE <<>>)

\* the last update that was a /reset of key k, 0 when there was none
LastReset(k) ==
    LET resets == {m \in Handlers : pc[m] \in {"ack", "acked"} /\ key[m] = k}
    IN  IF resets = {} THEN 0 ELSE CHOOSE m \in resets : \A n \in resets : n <= m

\* the entries of the messages of key k from update m on, message after message
RECURSIVE EntriesFrom(_, _)
EntriesFrom(m, k) ==
    IF m > MaxUpdates THEN <<>>
    ELSE (IF key[m] = k THEN EntriesOf(m) ELSE <<>>) \o EntriesFrom(m + 1, k)

\* C17: when the messages of a key are handled one after the other, the
\* history of the key is, message after message in the order of arrival, the
\* user entry, the assistant entry and, only when a tool ran, the combined
\* user entry followed by the second assistant entry.
C17_EntriesInOrder ==
    \A k \in Keys :
        Shape(load_history_for_key(file, k)) = EntriesFrom(LastReset(k) + 1, k)

\* two messages of one key were answered, the first of them through a tool:
\* the history holds its four entries and then the two of the second message
C17_Witness ==
    /\ pc[1] = "sent"
    /\ pc[2] = "sent"
    /\ key[1] = key[2]
    /\ Len(calls[1].tool) = 1
    /\ Len(calls[2].tool) = 0
    /\ Len(load_history_for_key(file, key[1])) = 6
    /\ load_history_for_key(file, key[1])[4].content = calls[1].replies[2]
    /\ load_history_for_key(file, key[1])[5].content = user_text[2]

\* the text holds a fenced block tagged tool_code, whatever is in it
HasToolBlock(text) == parse_tool_call(text) # None

\* the gating decision, if any, let handler m go on to the tool check
NotSuppressed(m) == pc[m] \in {"generating_final", "sending", "sent"}

\* handler m ran the tool and called the Response Generator a second time
ToolRoundTrip(m) == Len(calls[m].tool) = 1 /\ Len(calls[m].generate) = 2

\* C18: for a message whose reply gating does not suppress, the tool is run
\* and the Response Generator called a second time if and only if the
\* initial reply holds a fenced tool-call block, whatever the block holds;
\* without a block there is exactly one Response Generator call and the
\* initial reply is what is sent.
C18_ToolIffBlock ==
    \A m \in Handlers :
        NotSuppressed(m) =>
            /\ ToolRoundTrip(m) <=> HasToolBlock(calls[m].replies[1])
            /\ ~HasToolBlock(calls[m].replies[1]) =>
                   /\ Len(calls[m].generate) = 1
                   /\ Len(calls[m].tool) = 0
                   /\ pc[m] = "sent" =>
                          Texts(sent[m]) = split_message(calls[m].replies[1], DEFAULT_MAX_LENGTH)

\* what the code does: the tool runs if and only if the block holds
\* something other than whitespace (line 351 tests the extracted text)
ToolIffNonEmptyBlock ==
    \A m \in Handlers :
        NotSuppressed(m) =>
            /\ ToolRoundTrip(m) <=> Truthy(parse_tool_call(calls[m].replies[1]))
            /\ ~ToolRoundTrip(m) =>
                   /\ Len(calls[m].generate) = 1
                   /\ Len(calls[m].tool) = 0
                   /\ pc[m] = "sent" =>
                          Texts(sent[m]) = split_message(calls[m].replies[1], DEFAULT_MAX_LENGTH)

(***************************************************************************)
(* Progress.  The event loop resumes every task that is ready, the sleep   *)
(* of the typing task ends, and every call to the inference service and to *)
(* Telegram returns or raises: each step of a handler or typing task that  *)
(* stays possible is eventually taken.  Nothing is assumed about when, or  *)
(* whether, further updates arrive.                                        *)
(***************************************************************************)
Progress(m) ==
    /\ WF_vars(\E ok \in BOOLEAN : reset_command_acked(m, ok))
    /\ WF_vars(send_typing(m))
    /\ WF_vars(send_typing_sleep(m))
    /\ WF_vars(\E stream \in ReplyStreams : handle_message_generated(m, stream))
    /\ WF_vars(\E stream \in DecisionStreams : handle_message_gate(m, stream))
    /\ WF_vars(\E stream \in ReplyStreams : handle_message_final(m, stream))
    /\ WF_vars(\E ok \in BOOLEAN : handle_message_send(m, ok))

\* one update, handled under these conditions
SpecOneFair == Init /\ [][NextOne]_vars /\ Progress(1)

\* a step of the handler of update m or of its typing task
HandlerStep(m) ==
    \/ \E ok \in BOOLEAN : reset_command_acked(m, ok)
    \/ send_typing(m)
    \/ send_typing_sleep(m)
    \/ \E stream \in ReplyStreams : handle_message_generated(m, stream)
    \/ \E stream \in DecisionStreams : handle_message_gate(m, stream)
    \/ \E stream \in ReplyStreams : handle_message_final(m, stream)
    \/ \E ok \in BOOLEAN : handle_message_send(m, ok)

\* with several handlers in flight, a handler that has not ended can always
\* take a step, whatever the others have done
NeverStuck ==
    \A m \in Handlers : (pc[m] # "idle" /\ ~Done(m)) => ENABLED HandlerStep(m)

\* C20: the handling of every update that has arrived eventually ends:
\* ignored for lack of text, observed, or with every chunk of the final reply
\* attempted (a /reset: acknowledged), whatever raises on the way: the model
\* calls, the gating call, the tool, the typing signals and the sends.
C20_HandlingEnds ==
    \A m \in Handlers : (pc[m] # "idle") ~> Done(m)

\* a handler has ended although both of its generations raised, the tool
\* raised and the send of its reply raised
C20_Witness ==
    \E m \in Handlers :
        /\ pc[m] = "sent"
        /\ calls[m].raised = <<TRUE, TRUE>>
        /\ Len(calls[m].decisions) = 1
        /\ Len(calls[m].tool) = 1
        /\ Eval(calls[m].tool[1]).raised
        /\ ~sent[m][1].ok
====
